---- MODULE Spec2Model ----
(***************************************************************************)
(* Model of Scripts/GeminiEdit.py: the command-line entry point, generate  *)
(* and save_binary_file.                                                   *)
(*                                                                         *)
(* A Python string is modelled as a sequence of tokens; the separator "/"  *)
(* and the dot "." are always tokens of their own, so that os.path.dirname,*)
(* os.path.splitext and os.path.join are computed as posixpath computes    *)
(* them.  Python's None is the one-token sequence None, which is no path.  *)
(* The remote service is an external collaborator: each step of the        *)
(* response iteration delivers any chunk of Chunks, ends the stream or     *)
(* raises.                                                                 *)
(***************************************************************************)
EXTENDS Integers, Sequences, FiniteSets, TLC

VARIABLES argv, imageExists, api_key,
          pc, exit_status, image_path, output_path, output_dir, file_index,
          chunk, console, dirs, disk,
          calls, requests, received, imagesSeen, writes, remoteFailed

vars == <<argv, imageExists, api_key, pc, exit_status, image_path,
          output_path, output_dir, file_index, chunk, console, dirs, disk,
          calls, requests, received, imagesSeen, writes, remoteFailed>>

(* Bounds *)
MaxChunks == 3
MaxArgv == 4

(* ---------------------------------------------------------------- values *)
None == <<"None">>

Truthy(x) == x # None /\ x # <<>>

PyOr(a, b) == IF Truthy(a) THEN a ELSE b

Max(S) == CHOOSE m \in S : \A x \in S : x <= m

(* 1-based index of the last occurrence of c in p, 0 when there is none *)
rfind(p, c) == Max({0} \cup {i \in 1..Len(p) : p[i] = c})

RECURSIVE rstrip(_)
rstrip(p) == IF p # <<>> /\ p[Len(p)] = "/" THEN rstrip(SubSeq(p, 1, Len(p) - 1)) ELSE p

AllSeps(p) == \A i \in 1..Len(p) : p[i] = "/"

dirname(p) ==
    LET head == SubSeq(p, 1, rfind(p, "/"))
    IN  IF head # <<>> /\ ~AllSeps(head) THEN rstrip(head) ELSE head

(* os.path.splitext: <<root, ext>> *)
splitext(p) ==
    LET sepIndex == rfind(p, "/")
        dotIndex == rfind(p, ".")
    IN  IF dotIndex > sepIndex
           /\ \E j \in (sepIndex + 1)..(dotIndex - 1) : p[j] # "."
        THEN <<SubSeq(p, 1, dotIndex - 1), SubSeq(p, dotIndex, Len(p))>>
        ELSE <<p, <<>>>>

join(a, b) ==
    IF b # <<>> /\ b[1] = "/" THEN b
    ELSE IF a = <<>> \/ a[Len(a)] = "/" THEN a \o b
    ELSE a \o <<"/">> \o b

(* mimetypes.guess_extension on the MIME types of the model *)
guess_extension(mime) ==
    CASE mime = "image/png"  -> <<".", "png">>
      [] mime = "image/jpeg" -> <<".", "jpg">>
      [] OTHER               -> None

(* every directory os.makedirs(d) creates or finds *)
Ancestors(d) ==
    {SubSeq(d, 1, i) : i \in {j \in 1..Len(d) :
        d[j] # "/" /\ (j = Len(d) \/ d[j + 1] = "/")}}

(* ---------------------------------------------------------------- inputs *)
ImagePaths == { <<"t", ".", "png">>,
                <<"d", "/", "t", ".", "png">>,
                <<"/", "t", ".", "png">>,
                <<>> }

OutputPaths == { <<>>,
                 <<"r">>,
                 <<"r", ".", "png">>,
                 <<"o", "/", "r">>,
                 <<"o", "/", "r", ".", "png">>,
                 <<"o", "/", "d", "/">> }

ArgChoices(i) ==
    CASE i = 1 -> { <<"GeminiEdit", ".", "py">> }
      [] i = 2 -> { <<"prompt">> }
      [] i = 3 -> ImagePaths
      [] i = 4 -> OutputPaths
      [] OTHER -> { <<"extra">> }

Argvs == UNION { {a \in [1..n -> ImagePaths \cup OutputPaths \cup
                                  { <<"GeminiEdit", ".", "py">>, <<"prompt">>, <<"extra">> }] :
                      \A i \in 1..n : a[i] \in ArgChoices(i)} : n \in 1..MaxArgv }

ApiKeys == { None, <<>>, <<"key">> }

NoChunk == [shape |-> "none", inline |-> FALSE, mime |-> "", data |-> <<>>, text |-> None]

ImageChunk(m, d) == [shape |-> "parts", inline |-> TRUE, mime |-> m, data |-> d, text |-> None]

TextChunk(t) == [shape |-> "parts", inline |-> FALSE, mime |-> "", data |-> <<>>, text |-> t]

EmptyChunk(s) == [shape |-> s, inline |-> FALSE, mime |-> "", data |-> <<>>, text |-> None]

Chunks ==
    { ImageChunk("image/png", <<"b1">>), ImageChunk("image/png", <<"b2">>),
      ImageChunk("image/jpeg", <<"b1">>), ImageChunk("image/x-unknown", <<"b2">>),
      TextChunk(<<"hello">>),
      EmptyChunk("no_candidates"), EmptyChunk("no_content"), EmptyChunk("no_parts"),
      (* a part that is neither usable image data nor text *)
      [shape |-> "parts", inline |-> TRUE, mime |-> "image/png", data |-> <<>>, text |-> None],
      TextChunk(<<>>) }

(* ------------------------------------------------------------ file system *)
NoFiles == [n \in {} |-> <<>>]

(* os.path.exists(image_path): the environment decides, "" never exists *)
PathExists(p, e) == e /\ p # <<>>

(* directories present before the run: those leading to the source image *)
InitialDirs(a, e) ==
    IF Len(a) >= 3 /\ PathExists(a[3], e) THEN Ancestors(dirname(a[3])) ELSE {}

(* variant: the file is opened in append mode ("ab") *)
WriteBytesAppend(d, file_name, data) ==
    [n \in DOMAIN d \cup {file_name} |->
        IF n = file_name
        THEN (IF n \in DOMAIN d THEN d[n] ELSE <<>>) \o data
        ELSE d[n]]

(* open(file_name, "wb"); f.write(data): the file holds exactly data *)
WriteBytes(d, file_name, data) ==
    [n \in DOMAIN d \cup {file_name} |-> IF n = file_name THEN data ELSE d[n]]

(* save_binary_file: os.makedirs("") raises FileNotFoundError before the   *)
(* file is opened; otherwise the directories are created, the file is      *)
(* written and the path is printed.                                        *)
save_binary_file(file_name, data, ds, d, con) ==
    IF dirname(file_name) = <<>>
    THEN [raised |-> TRUE, dirs |-> ds, disk |-> d, console |-> con]
    ELSE [raised |-> FALSE,
          dirs |-> ds \cup Ancestors(dirname(file_name)),
          disk |-> WriteBytes(d, file_name, data),
          console |-> Append(con, <<"File saved to:", file_name>>)]

(* --------------------------------------------------------- generate parts *)
(* variant: "if api_key is None" instead of "if not api_key" *)
HasCredentialNotNone(k) == k # None

HasCredential(k) == Truthy(k)

(* variant: the image branch tests inline_data only, not inline_data.data *)
IsImagePartNoData(c) == c.inline

(* the guard of the image branch *)
IsImagePart(c) == c.inline /\ c.data # <<>>

(* chunks skipped by the first test of the loop body *)
IsSkipped(c) == c.shape \in {"no_candidates", "no_content", "no_parts"}

file_extension(c) == PyOr(guess_extension(c.mime), <<".", "png">>)

(* variant: an output_path without extension is taken as a directory *)
file_name_for_dir(op, od, idx, ext) ==
    IF Truthy(op)
    THEN IF splitext(op)[2] = <<>>
         THEN join(op, <<"gemini_edit_", ToString(idx)>> \o ext)
         ELSE op
    ELSE join(od, <<"gemini_edit_", ToString(idx)>> \o ext)

file_name_for(op, od, idx, ext) ==
    IF Truthy(op)
    THEN IF splitext(op)[2] = <<>> THEN op \o ext ELSE op
    ELSE join(od, <<"gemini_edit_", ToString(idx)>> \o ext)

(* variant: the exception is swallowed and the loop goes on *)
Swallowed == [pc |-> "stream", exit_status |-> -1]

(* an exception leaving the for loop is not caught anywhere *)
Uncaught == [pc |-> "raised", exit_status |-> 1]

(* ------------------------------------------------------------- __main__ *)
(* variant: the usage check also demands the optional argument *)
TooFewArgsStrict(a) == Len(a) < 4

TooFewArgs(a) == Len(a) < 3

OutputArg(a) == IF Len(a) > 3 THEN a[4] ELSE None

(* ------------------------------------------------------------------ Init *)
Init ==
    /\ argv \in Argvs
    /\ imageExists \in BOOLEAN
    /\ api_key \in ApiKeys
    /\ pc = "main"
    /\ exit_status = -1
    /\ image_path = None
    /\ output_path = None
    /\ output_dir = None
    /\ file_index = 0
    /\ chunk = NoChunk
    /\ console = <<>>
    /\ dirs = InitialDirs(argv, imageExists)
    /\ disk = NoFiles
    /\ calls = 0
    /\ requests = 0
    /\ received = 0
    /\ imagesSeen = 0
    /\ writes = <<>>
    /\ remoteFailed = FALSE


(* --------------------------------------------------------------- actions *)
env == <<argv, imageExists, api_key>>

MainUsage ==
    /\ pc = "main"
    /\ TooFewArgs(argv)
    /\ console' = console \o << <<"Usage:", <<>>>>, <<"usage line", <<>>>>,
                               <<"Example:", <<>>>>, <<"example line", <<>>>> >>
    /\ exit_status' = 1
    /\ pc' = "exited"
    /\ UNCHANGED <<env, remoteFailed, image_path, output_path, output_dir, file_index, chunk,
                   dirs, disk, calls, requests, received, imagesSeen, writes>>

MainCall ==
    /\ pc = "main"
    /\ ~TooFewArgs(argv)
    /\ image_path' = argv[3]
    /\ output_path' = OutputArg(argv)
    /\ calls' = calls + 1
    /\ pc' = "generate"
    /\ UNCHANGED <<env, remoteFailed, exit_status, output_dir, file_index, chunk, console,
                   dirs, disk, requests, received, imagesSeen, writes>>

GenImageMissing ==
    /\ pc = "generate"
    /\ ~PathExists(image_path, imageExists)
    /\ console' = Append(console, <<"Image file not found:", image_path>>)
    /\ pc' = "returned"
    /\ exit_status' = 0
    /\ UNCHANGED <<env, remoteFailed, image_path, output_path, output_dir, file_index, chunk,
                   dirs, disk, calls, requests, received, imagesSeen, writes>>

GenKeyMissing ==
    /\ pc = "generate"
    /\ PathExists(image_path, imageExists)
    /\ ~HasCredential(api_key)
    /\ console' = console \o << <<"Missing GEMINI_API_KEY", <<>>>>,
                               <<"Please set it", <<>>>> >>
    /\ pc' = "returned"
    /\ exit_status' = 0
    /\ UNCHANGED <<env, remoteFailed, image_path, output_path, output_dir, file_index, chunk,
                   dirs, disk, calls, requests, received, imagesSeen, writes>>

(* client, contents and config are built, output_dir and file_index are set *)
(* and the streaming request is issued                                      *)
GenRequest ==
    /\ pc = "generate"
    /\ PathExists(image_path, imageExists)
    /\ HasCredential(api_key)
    /\ output_dir' = dirname(PyOr(output_path, image_path))
    /\ file_index' = 0
    /\ console' = Append(console, <<"Generating", <<>>>>)
    /\ requests' = requests + 1
    /\ pc' = "stream"
    /\ UNCHANGED <<env, remoteFailed, exit_status, image_path, output_path, chunk,
                   dirs, disk, calls, received, imagesSeen, writes>>

(* one iteration of the for loop on a chunk the first test skips *)
ChunkSkip(c) ==
    /\ pc = "stream" /\ received < MaxChunks
    /\ IsSkipped(c)
    /\ chunk' = c
    /\ received' = received + 1
    /\ UNCHANGED <<env, remoteFailed, pc, exit_status, image_path, output_path, output_dir,
                   file_index, console, dirs, disk, calls, requests, imagesSeen, writes>>

(* one iteration of the for loop on a chunk taking the image branch *)
ChunkImage(c) ==
    /\ pc = "stream" /\ received < MaxChunks
    /\ ~IsSkipped(c) /\ IsImagePart(c)
    /\ chunk' = c
    /\ received' = received + 1
    /\ imagesSeen' = imagesSeen + 1
    /\ LET file_name == file_name_for(output_path, output_dir, file_index, file_extension(c))
           r == save_binary_file(file_name, c.data, dirs, disk, console)
       IN  /\ dirs' = r.dirs
           /\ disk' = r.disk
           /\ console' = r.console
           /\ IF r.raised
              THEN /\ pc' = Uncaught.pc
                   /\ exit_status' = Uncaught.exit_status
                   /\ UNCHANGED <<file_index, writes>>
              ELSE /\ file_index' = file_index + 1
                   /\ writes' = Append(writes, [name |-> file_name, data |-> c.data,
                                                 index |-> file_index,
                                                 ext |-> file_extension(c)])
                   /\ UNCHANGED <<pc, exit_status>>
    /\ UNCHANGED <<env, remoteFailed, image_path, output_path, output_dir, calls, requests>>

(* one iteration on a chunk without image data whose text is not empty *)
ChunkText(c) ==
    /\ pc = "stream" /\ received < MaxChunks
    /\ ~IsSkipped(c) /\ ~IsImagePart(c) /\ Truthy(c.text)
    /\ chunk' = c
    /\ received' = received + 1
    /\ console' = Append(console, <<"Gemini:", c.text>>)
    /\ UNCHANGED <<env, remoteFailed, pc, exit_status, image_path, output_path, output_dir,
                   file_index, dirs, disk, calls, requests, imagesSeen, writes>>

(* one iteration on a chunk with parts but neither image data nor text *)
ChunkIgnored(c) ==
    /\ pc = "stream" /\ received < MaxChunks
    /\ ~IsSkipped(c) /\ ~IsImagePart(c) /\ ~Truthy(c.text)
    /\ chunk' = c
    /\ received' = received + 1
    /\ UNCHANGED <<env, remoteFailed, pc, exit_status, image_path, output_path, output_dir,
                   file_index, console, dirs, disk, calls, requests, imagesSeen, writes>>

(* the iterator is exhausted *)
StreamEnd ==
    /\ pc = "stream"
    /\ console' = Append(console, <<"Done!", <<>>>>)
    /\ pc' = "returned"
    /\ exit_status' = 0
    /\ UNCHANGED <<env, remoteFailed, image_path, output_path, output_dir, file_index, chunk,
                   dirs, disk, calls, requests, received, imagesSeen, writes>>

(* the remote call raises while the response is iterated *)
StreamRaise ==
    /\ pc = "stream"
    /\ pc' = Uncaught.pc
    /\ exit_status' = Uncaught.exit_status
    /\ remoteFailed' = TRUE
    /\ UNCHANGED <<env, image_path, output_path, output_dir, file_index, chunk,
                   console, dirs, disk, calls, requests, received, imagesSeen, writes>>

Next ==
    \/ MainUsage
    \/ MainCall
    \/ GenImageMissing
    \/ GenKeyMissing
    \/ GenRequest
    \/ \E c \in Chunks : ChunkSkip(c)
    \/ \E c \in Chunks : ChunkImage(c)
    \/ \E c \in Chunks : ChunkText(c)
    \/ \E c \in Chunks : ChunkIgnored(c)
    \/ StreamEnd
    \/ StreamRaise

Spec == Init /\ [][Next]_vars

(* ---------------------------------------------------------------- claims *)

(* C1 (as stated): in a run whose request was issued, every image fragment  *)
(* received so far has resulted in exactly one written file, and once the   *)
(* stream has ended the number of distinct files on disk equals the number  *)
(* of image fragments received.                                             *)
C1_OneDistinctFilePerImage ==
    requests = 1 =>
        /\ Len(writes) = imagesSeen
        /\ (pc = "returned" => Cardinality(DOMAIN disk) = imagesSeen)

(* C2 (as stated): without output_path, the step that processes the k-th    *)
(* image fragment (k counts image fragments only) leaves its bytes in the   *)
(* file gemini_edit_<k><ext> of the source image's directory.               *)
C2_AutoNamedWrite ==
    [][ (pc = "stream" /\ output_path = None /\ imagesSeen' = imagesSeen + 1) =>
          LET ext  == IF guess_extension(chunk'.mime) = None
                      THEN <<".", "png">> ELSE guess_extension(chunk'.mime)
              name == join(dirname(image_path),
                           <<"gemini_edit_", ToString(imagesSeen)>> \o ext)
          IN  /\ name \in DOMAIN disk'
              /\ disk'[name] = chunk'.data ]_vars

(* C3 (as stated): with a non-empty output_path, the step that processes an *)
(* image fragment leaves its bytes in output_path itself when output_path   *)
(* has an extension and in output_path plus the determined extension when   *)
(* it has none, and no gemini_edit_<k> file exists.                         *)
C3_ExplicitPathWrite ==
    [][ (pc = "stream" /\ Truthy(output_path) /\ imagesSeen' = imagesSeen + 1) =>
          LET ext  == IF guess_extension(chunk'.mime) = None
                      THEN <<".", "png">> ELSE guess_extension(chunk'.mime)
              name == IF splitext(output_path)[2] # <<>>
                      THEN output_path ELSE output_path \o ext
          IN  /\ name \in DOMAIN disk'
              /\ disk'[name] = chunk'.data
              /\ \A n \in DOMAIN disk' :
                    \A i \in 1..Len(n) : n[i] # "gemini_edit_" ]_vars

(* C4 (as stated): when output_path names an output directory (a non-empty  *)
(* path without extension), every file written for an image fragment lies   *)
(* in that directory under the name gemini_edit_<k><ext>.                   *)
C4_WrittenInsideOutputDirectory ==
    (Truthy(output_path) /\ splitext(output_path)[2] = <<>>) =>
        \A i \in 1..Len(writes) :
            writes[i].name = join(output_path,
                                  <<"gemini_edit_", ToString(i - 1)>> \o writes[i].ext)

(* C4 (amended): when output_path is a non-empty path without extension, it *)
(* is used as a file path: every file written for an image fragment is      *)
(* output_path with the fragment's extension appended, and no written name  *)
(* contains the gemini_edit_ prefix.                                        *)
C4_OutputPathUsedAsFileName ==
    (Truthy(output_path) /\ splitext(output_path)[2] = <<>>) =>
        \A i \in 1..Len(writes) :
            /\ writes[i].name = output_path \o writes[i].ext
            /\ writes[i].name \in DOMAIN disk
            /\ \A j \in 1..Len(writes[i].name) : writes[i].name[j] # "gemini_edit_"

C4_Witness ==
    /\ output_path = <<"o", "/", "r">>
    /\ Len(writes) = 2
    /\ <<"o", "/", "r", ".", "png">> \in DOMAIN disk

(* C5: once generate has been called with a source image that does not      *)
(* exist or with a credential that is absent or empty, no request is ever   *)
(* issued, no file is written, and generate returns after printing the      *)
(* failure; a request is issued only when both preconditions held.          *)
C5_PreconditionFailure ==
    /\ (calls = 1 /\ (~imageExists \/ image_path = <<>> \/ api_key \in {None, <<>>})) =>
          /\ requests = 0
          /\ disk = NoFiles /\ writes = <<>>
          /\ pc \in {"generate", "returned"}
          /\ (pc = "returned" =>
                /\ exit_status = 0
                /\ console # <<>>
                /\ console[1][1] \in {"Image file not found:", "Missing GEMINI_API_KEY"})
    /\ (requests > 0 =>
          imageExists /\ image_path # <<>> /\ api_key \notin {None, <<>>})

C5_Witness ==
    /\ pc = "returned" /\ calls = 1
    /\ imageExists /\ image_path # <<>>
    /\ api_key = <<>>
    /\ requests = 0

(* C6: a step that processes a fragment without usable image data writes no *)
(* file, creates no directory and leaves file_index unchanged; a text       *)
(* fragment adds exactly its text to the console, and a fragment without    *)
(* candidates, content or parts changes nothing the program can observe.    *)
C6_NonImageFragmentFrame ==
    [][ (received' = received + 1
         /\ ~(chunk'.shape = "parts" /\ chunk'.inline /\ chunk'.data # <<>>)) =>
          /\ disk' = disk /\ dirs' = dirs /\ writes' = writes
          /\ file_index' = file_index
          /\ pc' = pc /\ exit_status' = exit_status
          /\ ((chunk'.shape = "parts" /\ chunk'.text \notin {None, <<>>}) =>
                console' = Append(console, <<"Gemini:", chunk'.text>>))
          /\ (chunk'.shape # "parts" => console' = console) ]_vars

C6_Witness ==
    /\ chunk.shape = "no_parts"
    /\ file_index = 1 /\ disk # NoFiles
    /\ \E i \in 1..Len(console) : console[i] = <<"Gemini:", <<"hello">>>>

(* C7: once the remote call has failed during the iteration, the run is     *)
(* over with the failure propagated (exit status 1), the completion message *)
(* is not printed, and nothing changes any more: no further fragment is     *)
(* processed and the disk keeps what was written.                           *)
C7_RemoteFailureHalts ==
    [][ /\ (remoteFailed' =>
              /\ pc' = "raised" /\ exit_status' = 1
              /\ \A i \in 1..Len(console') : console'[i][1] # "Done!"
              /\ (~remoteFailed => disk' = disk /\ writes' = writes))
        /\ (remoteFailed => UNCHANGED vars) ]_vars

C7_Witness ==
    /\ remoteFailed
    /\ Len(writes) = 2 /\ disk # NoFiles
    /\ received < MaxChunks

(* C8 (as stated): for every image fragment, whatever the target, the step  *)
(* that processes it ends with the target's directory in existence (an      *)
(* empty directory component is the current directory) and the fragment's   *)
(* bytes in the target file.                                                *)
C8_DirectoryEnsuredThenWritten ==
    [][ (pc = "stream" /\ imagesSeen' = imagesSeen + 1) =>
          /\ Len(writes') = Len(writes) + 1
          /\ LET w == writes'[Len(writes')]
             IN  /\ (dirname(w.name) = <<>> \/ Ancestors(dirname(w.name)) \subseteq dirs')
                 /\ w.name \in DOMAIN disk'
                 /\ disk'[w.name] = chunk'.data ]_vars

(* C9: with fewer than two positional arguments generate is never called,   *)
(* nothing but the usage message is printed and the exit status is 1; with  *)
(* two or more, generate is called exactly once, with the second argument   *)
(* as image_path and with output_path None unless a third was supplied.     *)
C9_UsageCheck ==
    /\ Len(argv) < 3 =>
          /\ calls = 0 /\ requests = 0 /\ disk = NoFiles
          /\ pc \in {"main", "exited"}
          /\ (pc = "exited" =>
                /\ exit_status = 1
                /\ Len(console) = 4 /\ console[1][1] = "Usage:")
    /\ Len(argv) >= 3 =>
          /\ calls <= 1
          /\ (pc # "main" =>
                /\ calls = 1
                /\ pc # "exited"
                /\ image_path = argv[3]
                /\ output_path = IF Len(argv) >= 4 THEN argv[4] ELSE None)

C9_Witness ==
    /\ pc = "exited"
    /\ Len(argv) = 2
    /\ console # <<>>

====
